---- MODULE Spec2Model ----
(***************************************************************************)
(* State-machine model of SSHConnection (src/vm_connection.py): the        *)
(* connection lifecycle (connect / disconnect / is_alive / reconnect) and  *)
(* the polling command executor (execute), with the SSH transport, the     *)
(* remote command and the wall clock as the environment.                   *)
(***************************************************************************)
EXTENDS Integers, Sequences, FiniteSets, TLC

(* ------------------------------ bounds -------------------------------- *)
\* most lines (stdout and stderr together) a remote command writes
MaxLines == 2
\* largest command timeout tried, in clock ticks; the clock runs one tick past the timeout
MaxTimeout == 1
\* largest max_retries tried by reconnect
MaxRetries == 2

(* --------------------------- value domains ----------------------------- *)
\* Python None, a value outside every string alphabet used below
None == <<"None">>

\* str.strip()/rstrip() with no argument remove these characters
Whitespace == {" ", "\n"}

\* raw replies of "stat -c %Y /proc/1" (before decode().strip())
RawFingerprints == {<<>>, <<"1">>, <<"1", "\n">>, <<"2", "\n">>}

\* a fingerprint query: it raises (ok = FALSE) or yields raw text
FingerprintReplies ==
    {[ok |-> FALSE, raw |-> <<>>]} \cup {[ok |-> TRUE, raw |-> r] : r \in RawFingerprints}

\* lines a remote command may write (without their newline)
OutLineSet == {<<>>, <<"a">>, <<"b", " ">>}
ErrLineSet == {<<>>, <<"e">>}

ExitStatuses == {0, 1}

\* exceptions of the transport: their class and the words of str(e)
NoErr == [type |-> "none", msg |-> <<>>]
TransportErrors ==
    { [type |-> "socket.timeout", msg |-> <<"timed", "out">>],
      [type |-> "SSHException",   msg |-> <<"Timeout", "opening", "channel">>],
      [type |-> "SSHException",   msg |-> <<"reset">>] }
\* an exception raised by the caller's output callback
SinkError == [type |-> "ValueError", msg |-> <<"bad", "line">>]
\* the CommandTimeoutError execute raises inside its own try block (line 90)
OwnTimeout == [type |-> "CommandTimeoutError", msg |-> <<"Command", "timeout:", "cmd">>]

(* --------------------------- pure helpers ------------------------------ *)
\* truthiness test "not x" on an Optional[str]: None and "" are both falsy
Falsy(v) == v = None \/ v = <<>>

RECURSIVE RStrip(_)
RStrip(s) ==
    IF s # <<>> /\ s[Len(s)] \in Whitespace
    THEN RStrip(SubSeq(s, 1, Len(s) - 1))
    ELSE s

RECURSIVE LStrip(_)
LStrip(s) ==
    IF s # <<>> /\ s[1] \in Whitespace
    THEN LStrip(Tail(s))
    ELSE s

Strip(s) == LStrip(RStrip(s))

\* str.lower() on one word of a message
LowerWord(w) ==
    CASE w = "Timeout"  -> "timeout"
      [] w = "Command"  -> "command"
      [] OTHER          -> w

\* whether the word contains the substring "timeout"
WordHasTimeout(w) == w \in {"timeout", "timeout:"}

\* "timeout" in str(e).lower()
MsgSaysTimeout(e) == \E i \in DOMAIN e.msg : WordHasTimeout(LowerWord(e.msg[i]))

\* file.readline(): the next line with its terminator
ReadLine(l) == l \o <<"\n">>

\* f"STDERR: {line}"
StderrTag(l) == <<"STDERR: ">> \o l

(* ------------------------------ state ---------------------------------- *)
VARIABLES
    client,      \* self.client: "None", "new" (SSHClient() made, not connected) or "open"
    connected,   \* self.connected
    boot_time,   \* self.boot_time: None or the stored fingerprint text
    pc,          \* where the caller is: "idle", inside execute or inside reconnect
    pre,         \* the three fields as they were when the current operation began
    calls,       \* transport calls made by the current (or last) operation
    sink,        \* lines handed to output_callback by the current (or last) execute
    result,      \* how the last operation ended
    \* locals of a running execute and the remote command it issued
    cmd,         \* the remote command: stdout and stderr lines received so far, exit status
    timeout,     \* execute's timeout argument
    hasSink,     \* whether output_callback was given
    clock,       \* time.time() - start_time, in ticks
    partOut,     \* bytes of the next stdout line received, its newline not yet
    partErr,     \* bytes of the next stderr line received, its newline not yet
    rdOut,       \* stdout lines read by execute
    rdErr,       \* stderr lines read by execute
    done,        \* exit_status_ready()
    \* locals of a running reconnect
    max_retries,
    delay,
    attempt,
    rlog         \* disconnect / connect / is_alive / sleep calls made by reconnect

connVars == <<client, connected, boot_time>>
execVars == <<cmd, timeout, hasSink, clock, partOut, partErr, rdOut, rdErr, done>>
reconVars == <<max_retries, delay, attempt, rlog>>
vars == <<client, connected, boot_time, pc, pre, calls, sink, result,
          cmd, timeout, hasSink, clock, partOut, partErr, rdOut, rdErr, done,
          max_retries, delay, attempt, rlog>>

Self == [client |-> client, connected |-> connected, boot_time |-> boot_time]

\* no line received yet, not exited
NoCmd == [out |-> <<>>, err |-> <<>>, status |-> -1]

NoResult == [op |-> "init", raised |-> "none", ret |-> "None", status |-> -1,
             stage |-> "none", cause |-> NoErr, fq |-> [ok |-> FALSE, raw |-> <<>>]]

\* SSHConnection.__init__
Init ==
    /\ client = "None"
    /\ connected = FALSE
    /\ boot_time = None
    /\ pc = "idle"
    /\ pre = [client |-> "None", connected |-> FALSE, boot_time |-> None]
    /\ calls = <<>>
    /\ sink = <<>>
    /\ result = NoResult
    /\ cmd = NoCmd
    /\ timeout = 0
    /\ hasSink = FALSE
    /\ clock = 0
    /\ partOut = FALSE
    /\ partErr = FALSE
    /\ rdOut = 0
    /\ rdErr = 0
    /\ done = FALSE
    /\ max_retries = 0
    /\ delay = 0
    /\ attempt = 0
    /\ rlog = <<>>

\* the locals of execute and reconnect die with the call that owned them
ExecReset ==
    /\ cmd' = NoCmd
    /\ timeout' = 0
    /\ hasSink' = FALSE
    /\ clock' = 0
    /\ partOut' = FALSE
    /\ partErr' = FALSE
    /\ rdOut' = 0
    /\ rdErr' = 0
    /\ done' = FALSE

ReconReset ==
    /\ max_retries' = 0
    /\ delay' = 0
    /\ attempt' = 0
    /\ rlog' = <<>>

SetSelf(s) ==
    /\ client' = s.client
    /\ connected' = s.connected
    /\ boot_time' = s.boot_time

\* the record of an operation's end: what it raised or returned, where it ended,
\* the exception that ended it and the reply to the fingerprint query it made
Res(op, raised, ret, status, stage, cause, fq) ==
    [op |-> op, raised |-> raised, ret |-> ret, status |-> status,
     stage |-> stage, cause |-> cause, fq |-> fq]

(* --------------------------- ConnectionManager ------------------------- *)
\* what the environment does to one connect(): the key file fails to load,
\* client.connect raises, or the session opens and the fingerprint query answers
KeyFileError == [type |-> "IOError", msg |-> <<"no", "such", "file">>]
NoReply == [ok |-> FALSE, raw |-> <<>>]
ConnectEnvs ==
    {[fail |-> "key", err |-> KeyFileError, fq |-> NoReply]}
    \cup {[fail |-> "connect", err |-> e, fq |-> NoReply] : e \in TransportErrors}
    \cup {[fail |-> "none", err |-> NoErr, fq |-> q] : q \in FingerprintReplies}

\* a fingerprint query that leaves the old fingerprint in place when it fails
_get_boot_time_keeps(s, fq) ==
    [s EXCEPT !.boot_time = IF fq.ok THEN Strip(fq.raw) ELSE @]

\* SSHConnection._get_boot_time: the stripped reply, or None when anything raises
_get_boot_time(s, fq) ==
    [s EXCEPT !.boot_time = IF fq.ok THEN Strip(fq.raw) ELSE None]

\* SSHConnection.connect
connect(s, e) ==
    LET made == [s EXCEPT !.client = "new"]
    IN  IF e.fail = "key"
        THEN [s |-> made, raised |-> "VMConnectionError", calls |-> <<>>, cause |-> e.err]
        ELSE IF e.fail = "connect"
        THEN [s |-> made,
              raised |-> IF e.err.type = "socket.timeout"
                         THEN "ConnectionTimeoutError" ELSE "VMConnectionError",
              calls |-> <<"connect">>, cause |-> e.err]
        ELSE [s |-> _get_boot_time([made EXCEPT !.client = "open", !.connected = TRUE], e.fq),
              raised |-> "none",
              calls |-> <<"connect", "exec_command:stat">>, cause |-> NoErr]

\* disconnect that clears the handle but forgets the flag
disconnect_keeps_flag(s, closeRaises) ==
    [s |-> [s EXCEPT !.client = "None"], raised |-> "none",
     calls |-> IF s.client # "None" THEN <<"close">> ELSE <<>>]

\* disconnect without the try around close(): the error escapes before the fields are reset
disconnect_unguarded(s, closeRaises) ==
    IF s.client # "None" /\ closeRaises
    THEN [s |-> s, raised |-> "SSHException", calls |-> <<"close">>]
    ELSE [s |-> [s EXCEPT !.client = "None", !.connected = FALSE], raised |-> "none",
          calls |-> IF s.client # "None" THEN <<"close">> ELSE <<>>]

\* disconnect that also forgets the stored fingerprint
disconnect_forgets(s, closeRaises) ==
    [s |-> [s EXCEPT !.client = "None", !.connected = FALSE, !.boot_time = None],
     raised |-> "none",
     calls |-> IF s.client # "None" THEN <<"close">> ELSE <<>>]

\* SSHConnection.disconnect; closeRaises: client.close() throws (and is swallowed)
disconnect(s, closeRaises) ==
    [s |-> [s EXCEPT !.client = "None", !.connected = FALSE], raised |-> "none",
     calls |-> IF s.client # "None" THEN <<"close">> ELSE <<>>]

(* ----------------------------- LivenessProbe --------------------------- *)
\* where one is_alive() call on a held session ends
AliveScenarios ==
    {"lookup_raises", "no_transport", "is_active_raises", "inactive", "exec_raises",
     "poll_raises", "bound_exceeded", "status_raises", "exit_0", "exit_1"}

\* a client that never connected has no transport
AliveScenariosFor(c) ==
    IF c = "open" THEN AliveScenarios ELSE {"lookup_raises", "no_transport"}

AliveCalls(sc) ==
    CASE sc \in {"lookup_raises", "no_transport"} -> <<"get_transport">>
      [] sc \in {"is_active_raises", "inactive"}  -> <<"get_transport", "is_active">>
      [] OTHER -> <<"get_transport", "is_active", "exec_command:echo">>

\* a probe that reports an inactive transport without clearing the flag
is_alive_no_flip(s, sc) ==
    IF ~s.connected \/ s.client = "None"
    THEN [s |-> s, raised |-> "none", ret |-> FALSE, calls |-> <<>>]
    ELSE IF sc \in {"lookup_raises", "is_active_raises", "exec_raises", "poll_raises",
                    "status_raises"}
    THEN [s |-> [s EXCEPT !.connected = FALSE], raised |-> "none", ret |-> FALSE,
          calls |-> AliveCalls(sc)]
    ELSE [s |-> s, raised |-> "none", ret |-> (sc = "exit_0"), calls |-> AliveCalls(sc)]

\* a probe whose handler misses a failing recv_exit_status(): the error escapes
is_alive_unguarded_status(s, sc) ==
    IF ~s.connected \/ s.client = "None"
    THEN [s |-> s, raised |-> "none", ret |-> FALSE, calls |-> <<>>]
    ELSE IF sc = "status_raises"
    THEN [s |-> s, raised |-> "SSHException", ret |-> FALSE, calls |-> AliveCalls(sc)]
    ELSE IF sc \in {"no_transport", "inactive", "lookup_raises", "is_active_raises",
                    "exec_raises", "poll_raises"}
    THEN [s |-> [s EXCEPT !.connected = FALSE], raised |-> "none", ret |-> FALSE,
          calls |-> AliveCalls(sc)]
    ELSE [s |-> s, raised |-> "none", ret |-> (sc = "exit_0"), calls |-> AliveCalls(sc)]

\* SSHConnection.is_alive; raised is "none" on every path (bare except, lines 165-167)
is_alive(s, sc) ==
    IF ~s.connected \/ s.client = "None"
    THEN [s |-> s, raised |-> "none", ret |-> FALSE, calls |-> <<>>]
    ELSE IF sc \in {"no_transport", "inactive"}
    THEN [s |-> [s EXCEPT !.connected = FALSE], raised |-> "none", ret |-> FALSE,
          calls |-> AliveCalls(sc)]
    ELSE IF sc \in {"lookup_raises", "is_active_raises", "exec_raises", "poll_raises",
                    "status_raises"}
    THEN [s |-> [s EXCEPT !.connected = FALSE], raised |-> "none", ret |-> FALSE,
          calls |-> AliveCalls(sc)]
    ELSE IF sc = "bound_exceeded"
    THEN [s |-> s, raised |-> "none", ret |-> FALSE, calls |-> AliveCalls(sc)]
    ELSE [s |-> s, raised |-> "none", ret |-> (sc = "exit_0"), calls |-> AliveCalls(sc)]

BoolStr(b) == IF b THEN "True" ELSE "False"

(* ------------------------ top-level operations ------------------------- *)
Connect ==
    \E e \in ConnectEnvs :
        LET r == connect(Self, e)
        IN  /\ pc = "idle"
            /\ SetSelf(r.s)
            /\ pre' = Self
            /\ calls' = r.calls
            /\ sink' = <<>>
            /\ result' = Res("connect", r.raised, "None", -1,
                             IF r.raised = "none" THEN "returned" ELSE e.fail, r.cause, e.fq)
            /\ ExecReset
            /\ ReconReset
            /\ UNCHANGED pc

Disconnect ==
    \E closeRaises \in BOOLEAN :
        LET r == disconnect(Self, closeRaises)
        IN  /\ pc = "idle"
            /\ SetSelf(r.s)
            /\ pre' = Self
            /\ calls' = r.calls
            /\ sink' = <<>>
            /\ result' = Res("disconnect", r.raised, "None", -1,
                             IF closeRaises /\ r.calls # <<>> THEN "close" ELSE "returned",
                             NoErr, NoReply)
            /\ ExecReset
            /\ ReconReset
            /\ UNCHANGED pc

IsAlive ==
    \E sc \in AliveScenariosFor(client) :
        LET r == is_alive(Self, sc)
        IN  /\ pc = "idle"
            /\ SetSelf(r.s)
            /\ pre' = Self
            /\ calls' = r.calls
            /\ sink' = <<>>
            /\ result' = Res("is_alive", r.raised,
                             IF r.raised = "none" THEN BoolStr(r.ret) ELSE "None", -1,
                             IF r.calls = <<>> THEN "guard" ELSE sc, NoErr, NoReply)
            /\ ExecReset
            /\ ReconReset
            /\ UNCHANGED pc

(* ----------------------------- RebootDetector -------------------------- *)
\* a reboot check whose bare "except" also swallows its own UnexpectedRebootError
_check_reboot_swallows(s, fq) ==
    IF Falsy(s.boot_time)
    THEN [s |-> s, raised |-> "none", calls |-> <<>>]
    ELSE [s |-> s, raised |-> "none", calls |-> <<"exec_command:stat">>]

\* a reboot check that takes a failed fetch for a reboot
_check_reboot_strict(s, fq) ==
    IF Falsy(s.boot_time)
    THEN [s |-> s, raised |-> "none", calls |-> <<>>]
    ELSE IF ~fq.ok \/ Strip(fq.raw) # s.boot_time
    THEN [s |-> s, raised |-> "UnexpectedRebootError", calls |-> <<"exec_command:stat">>]
    ELSE [s |-> s, raised |-> "none", calls |-> <<"exec_command:stat">>]

\* a reboot check that marks the connection lost when it detects a reboot
_check_reboot_drops(s, fq) ==
    IF Falsy(s.boot_time)
    THEN [s |-> s, raised |-> "none", calls |-> <<>>]
    ELSE IF fq.ok /\ Strip(fq.raw) # s.boot_time
    THEN [s |-> [s EXCEPT !.connected = FALSE], raised |-> "UnexpectedRebootError",
          calls |-> <<"exec_command:stat">>]
    ELSE [s |-> s, raised |-> "none", calls |-> <<"exec_command:stat">>]

\* SSHConnection._check_reboot; fq is the reply to the fresh fingerprint query
_check_reboot(s, fq) ==
    IF Falsy(s.boot_time)
    THEN [s |-> s, raised |-> "none", calls |-> <<>>]
    ELSE IF fq.ok /\ Strip(fq.raw) # s.boot_time
    THEN [s |-> s, raised |-> "UnexpectedRebootError", calls |-> <<"exec_command:stat">>]
    ELSE [s |-> s, raised |-> "none", calls |-> <<"exec_command:stat">>]

(* ----------------------------- CommandExecutor ------------------------- *)
\* a transport call of execute that raises, or the callback raising
NoFault == [at |-> "none", err |-> NoErr]
FaultStages == {"issue", "close", "ready", "read_out", "read_err", "drain", "status"}
Faults ==
    {NoFault} \cup {[at |-> a, err |-> e] : a \in FaultStages, e \in TransportErrors}
    \cup {[at |-> "sink", err |-> SinkError]}

\* an except block that marks the connection lost whatever the error says
on_exception_always_drops(s, e) ==
    [s |-> [s EXCEPT !.connected = FALSE],
     raised |-> IF MsgSaysTimeout(e) THEN "CommandTimeoutError" ELSE "ConnectionLostError"]

\* execute's "except Exception as e" block (lines 119-123)
on_exception(s, e) ==
    IF MsgSaysTimeout(e)
    THEN [s |-> s, raised |-> "CommandTimeoutError"]
    ELSE [s |-> [s EXCEPT !.connected = FALSE], raised |-> "ConnectionLostError"]

\* execute without its guard
not_connected_unchecked(s) == FALSE

\* the guard of execute (lines 75-76)
not_connected(s) == ~s.connected

ExecPcs == {"loop", "read_out", "read_err"}

\* execute up to the issue of the command: guard, reboot check, exec_command.
\* On a client that never connected every exec_command raises.
Execute ==
    \E fq \in (IF Falsy(boot_time) THEN {NoReply} ELSE FingerprintReplies), f \in Faults :
        LET chk == _check_reboot(Self, fq)
            asked == IF chk.calls = <<>> THEN NoReply ELSE fq
            h == on_exception(Self, f.err)
        IN  /\ pc = "idle"
            /\ f.at \in {"none", "issue"}
            /\ client # "open" => (~fq.ok /\ f.at = "issue")
            /\ pre' = Self
            /\ sink' = <<>>
            /\ ReconReset
            /\ UNCHANGED <<client, boot_time>>
            /\ IF not_connected(Self)
               THEN /\ calls' = <<>>
                    /\ result' = Res("execute", "ConnectionLostError", "None", -1, "guard", NoErr, NoReply)
                    /\ ExecReset
                    /\ UNCHANGED <<connected, pc>>
               ELSE IF chk.raised # "none"
               THEN /\ calls' = chk.calls
                    /\ result' = Res("execute", chk.raised, "None", -1, "reboot", NoErr, asked)
                    /\ connected' = chk.s.connected
                    /\ ExecReset
                    /\ UNCHANGED pc
               ELSE IF f.at = "issue"
               THEN /\ calls' = Append(chk.calls, "exec_command:cmd")
                    /\ result' = Res("execute", h.raised, "None", -1, "issue", f.err, asked)
                    /\ connected' = h.s.connected
                    /\ ExecReset
                    /\ UNCHANGED pc
               ELSE \E T \in 0..MaxTimeout, cb \in BOOLEAN :
                    /\ calls' = Append(chk.calls, "exec_command:cmd")
                    /\ result' = Res("execute", "none", "None", -1, "running", NoErr, asked)
                    /\ pc' = "loop"
                    /\ cmd' = NoCmd
                    /\ timeout' = T
                    /\ hasSink' = cb
                    /\ clock' = 0
                    /\ partOut' = FALSE
                    /\ partErr' = FALSE
                    /\ rdOut' = 0
                    /\ rdErr' = 0
                    /\ done' = FALSE
                    /\ UNCHANGED connected

\* ---- the environment of a running command ----
\* one tick of wall time; the clock need not run further than one tick past
\* the timeout of the running execute
Tick ==
    /\ pc \in ExecPcs
    /\ clock <= timeout
    /\ clock' = clock + 1
    /\ UNCHANGED <<connVars, pc, pre, calls, sink, result, cmd, timeout, hasSink,
                   partOut, partErr, rdOut, rdErr, done, reconVars>>

\* a whole stdout line (or the rest of a started one) reaches the client
CmdWriteOut ==
    \E l \in OutLineSet :
        /\ pc \in ExecPcs
        /\ ~done
        /\ Len(cmd.out) + Len(cmd.err) < MaxLines
        /\ partOut => l # <<>>
        /\ cmd' = [cmd EXCEPT !.out = Append(@, l)]
        /\ partOut' = FALSE
        /\ UNCHANGED <<connVars, pc, pre, calls, sink, result, timeout, hasSink, clock,
                       partErr, rdOut, rdErr, done, reconVars>>

CmdWriteErr ==
    \E l \in ErrLineSet :
        /\ pc \in ExecPcs
        /\ ~done
        /\ Len(cmd.out) + Len(cmd.err) < MaxLines
        /\ partErr => l # <<>>
        /\ cmd' = [cmd EXCEPT !.err = Append(@, l)]
        /\ partErr' = FALSE
        /\ UNCHANGED <<connVars, pc, pre, calls, sink, result, timeout, hasSink, clock,
                       partOut, rdOut, rdErr, done, reconVars>>

\* the first bytes of a line reach the client, its newline does not yet:
\* recv_ready() is then true, while readline() returns only with a whole line
CmdPartial ==
    \E ch \in {"out", "err"} :
        /\ pc \in ExecPcs
        /\ ~done
        /\ IF ch = "out"
           THEN /\ ~partOut
                /\ Len(cmd.out) + Len(cmd.err) < MaxLines
                /\ partOut' = TRUE
                /\ UNCHANGED partErr
           ELSE /\ ~partErr
                /\ Len(cmd.out) + Len(cmd.err) < MaxLines
                /\ partErr' = TRUE
                /\ UNCHANGED partOut
        /\ UNCHANGED <<connVars, pc, pre, calls, sink, result, cmd, timeout, hasSink, clock,
                       rdOut, rdErr, done, reconVars>>

\* the remote command exits, every line it wrote already received
CmdExit ==
    \E x \in ExitStatuses :
        /\ pc \in ExecPcs
        /\ ~done
        /\ ~partOut
        /\ ~partErr
        /\ done' = TRUE
        /\ cmd' = [cmd EXCEPT !.status = x]
        /\ UNCHANGED <<connVars, pc, pre, calls, sink, result, timeout, hasSink, clock,
                       partOut, partErr, rdOut, rdErr, reconVars>>

\* ---- the poll loop ----
\* how one stretch of execute's loop ends: next is where control goes
Step(sk, rdo, rde, next, err, stage, cl) ==
    [sink |-> sk, rdOut |-> rdo, rdErr |-> rde, next |-> next, err |-> err,
     stage |-> stage, calls |-> cl]

\* channel.recv_ready(): some byte is buffered
recv_ready_out == rdOut < Len(cmd.out) \/ partOut
recv_ready_err == rdErr < Len(cmd.err) \/ partErr

\* lines 103-105, once stderr.readline() has a whole line to return
err_read(sk, rdo, f) ==
    LET line == RStrip(ReadLine(cmd.err[rdErr + 1]))
    IN  IF line # <<>> /\ hasSink
        THEN IF f.at = "sink"
             THEN Step(sk, rdo, rdErr + 1, "raise", f.err, "sink", calls)
             ELSE Step(Append(sk, StderrTag(line)), rdo, rdErr + 1, "loop", NoErr, "none", calls)
        ELSE Step(sk, rdo, rdErr + 1, "loop", NoErr, "none", calls)

\* lines 102-107: the stderr half of an iteration, then the sleep
err_half(sk, rdo, f) ==
    IF f.at = "read_err"
    THEN Step(sk, rdo, rdErr, "raise", f.err, "read_err", calls)
    ELSE IF ~recv_ready_err
    THEN Step(sk, rdo, rdErr, "loop", NoErr, "none", calls)
    ELSE IF rdErr = Len(cmd.err)
    THEN Step(sk, rdo, rdErr, "read_err", NoErr, "none", calls)
    ELSE err_read(sk, rdo, f)

\* lines 98-100, once stdout.readline() has a whole line to return, then the stderr half
out_read(f) ==
    LET line == RStrip(ReadLine(cmd.out[rdOut + 1]))
    IN  IF line # <<>> /\ hasSink
        THEN IF f.at = "sink"
             THEN Step(sink, rdOut + 1, rdErr, "raise", f.err, "sink", calls)
             ELSE err_half(Append(sink, line), rdOut + 1, [f EXCEPT !.at = IF @ = "sink" THEN "none" ELSE @])
        ELSE err_half(sink, rdOut + 1, f)

\* lines 97-107: the stdout half of an iteration
out_half(f) ==
    IF f.at = "read_out"
    THEN Step(sink, rdOut, rdErr, "raise", f.err, "read_out", calls)
    ELSE IF ~recv_ready_out
    THEN err_half(sink, rdOut, f)
    ELSE IF rdOut = Len(cmd.out)
    THEN Step(sink, rdOut, rdErr, "read_out", NoErr, "none", calls)
    ELSE out_read(f)

RECURSIVE drain_out(_)
drain_out(ls) == IF ls = <<>> THEN <<>> ELSE <<RStrip(ReadLine(Head(ls)))>> \o drain_out(Tail(ls))

RECURSIVE drain_err(_)
drain_err(ls) ==
    IF ls = <<>> THEN <<>> ELSE <<StderrTag(RStrip(ReadLine(Head(ls))))>> \o drain_err(Tail(ls))

\* lines 110-117: forward what is left on both channels, return the exit status
drain(f) ==
    LET left == drain_out(SubSeq(cmd.out, rdOut + 1, Len(cmd.out)))
                \o drain_err(SubSeq(cmd.err, rdErr + 1, Len(cmd.err)))
        fw == IF hasSink THEN left ELSE <<>>
    IN  IF f.at = "drain"
        THEN Step(sink, rdOut, rdErr, "raise", f.err, "drain", calls)
        ELSE IF f.at = "sink" /\ fw # <<>>
        THEN Step(sink, rdOut, rdErr, "raise", f.err, "sink", calls)
        ELSE IF f.at = "status"
        THEN Step(sink \o fw, Len(cmd.out), Len(cmd.err), "raise", f.err, "status", calls)
        ELSE Step(sink \o fw, Len(cmd.out), Len(cmd.err), "return", NoErr, "returned", calls)

\* lines 86-107: one iteration of "while True", from its head
poll(f) ==
    IF clock > timeout
    THEN Step(sink, rdOut, rdErr, "raise", IF f.at = "close" THEN f.err ELSE OwnTimeout,
              "deadline", Append(calls, "channel.close"))
    ELSE IF f.at = "ready"
    THEN Step(sink, rdOut, rdErr, "raise", f.err, "ready", calls)
    ELSE IF done
    THEN drain(f)
    ELSE out_half(f)

\* carry out the end of a stretch of the loop; when execute ends, its loop
\* locals (clock, read positions, timeout) are gone
Apply(st) ==
    LET h == on_exception(Self, st.err)
        ends == st.next \in {"raise", "return"}
    IN  /\ sink' = st.sink
        /\ calls' = st.calls
        /\ rdOut' = IF ends THEN 0 ELSE st.rdOut
        /\ rdErr' = IF ends THEN 0 ELSE st.rdErr
        /\ clock' = IF ends THEN 0 ELSE clock
        /\ timeout' = IF ends THEN 0 ELSE timeout
        /\ partOut' = IF ends THEN FALSE ELSE partOut
        /\ partErr' = IF ends THEN FALSE ELSE partErr
        /\ UNCHANGED <<client, boot_time, pre, cmd, hasSink, done, reconVars>>
        /\ IF st.next = "raise"
           THEN /\ connected' = h.s.connected
                /\ result' = Res("execute", h.raised, "None", -1, st.stage, st.err, result.fq)
                /\ pc' = "idle"
           ELSE IF st.next = "return"
           THEN /\ result' = Res("execute", "none", "int", cmd.status, "returned", NoErr, result.fq)
                /\ pc' = "idle"
                /\ UNCHANGED connected
           ELSE /\ pc' = st.next
                /\ UNCHANGED <<connected, result>>

PollStep ==
    \E f \in Faults :
        /\ pc = "loop"
        /\ f.at # "issue"
        /\ Apply(poll(f))

\* stdout.readline() returns at last: the line it waited for is complete
ReadOutReturn ==
    \E f \in Faults :
        /\ pc = "read_out"
        /\ rdOut < Len(cmd.out)
        /\ f.at \in {"none", "sink", "read_err"}
        /\ Apply(out_read(f))

ReadErrReturn ==
    \E f \in Faults :
        /\ pc = "read_err"
        /\ rdErr < Len(cmd.err)
        /\ f.at \in {"none", "sink"}
        /\ Apply(err_read(sink, rdOut, f))

\* the transport fails under a blocked readline()
ReadAbort ==
    \E e \in TransportErrors :
        /\ pc \in {"read_out", "read_err"}
        /\ Apply(Step(sink, rdOut, rdErr, "raise", e, pc, calls))

(* --------------------------- ReconnectionPolicy ------------------------ *)
\* delays tried by reconnect (seconds)
Delays == {0, 5}

Ev(name, arg) == [ev |-> name, arg |-> arg]

\* a retry loop that also sleeps after its last attempt
sleeps_after_always(a, n) == TRUE

\* time.sleep(delay) between attempts (lines 182-183)
sleeps_after(a, n) == a < n - 1

\* an attempt that counts as soon as connect() returns
attempt_succeeds_unprobed(c, a) == c.raised = "none"

\* "self.connect(); if self.is_alive(): return True" inside try/except (lines 175-181):
\* c is the outcome of connect, a that of the probe made after it
attempt_succeeds(c, a) == c.raised = "none" /\ a.raised = "none" /\ a.ret

\* reconnect up to its loop: the unconditional disconnect (line 171), which is
\* outside any try; range(max_retries) is empty for max_retries <= 0
Reconnect ==
    \E n \in -1..MaxRetries, d \in Delays, closeRaises \in BOOLEAN :
        LET r == disconnect(Self, closeRaises)
        IN  /\ pc = "idle"
            /\ SetSelf(r.s)
            /\ pre' = Self
            /\ calls' = r.calls
            /\ sink' = <<>>
            /\ ExecReset
            /\ max_retries' = n
            /\ delay' = d
            /\ attempt' = 0
            /\ rlog' = <<Ev("disconnect", 0)>>
            /\ IF r.raised # "none"
               THEN /\ result' = Res("reconnect", r.raised, "None", -1, "disconnect", NoErr, NoReply)
                    /\ UNCHANGED pc
               ELSE IF n <= 0
               THEN /\ result' = Res("reconnect", "none", "False", -1, "returned", NoErr, NoReply)
                    /\ UNCHANGED pc
               ELSE /\ result' = Res("reconnect", "none", "None", -1, "running", NoErr, NoReply)
                    /\ pc' = "reconnect"

\* one pass of "for attempt in range(max_retries)" (lines 173-185)
ReconnectAttempt ==
    \E e \in ConnectEnvs, sc \in AliveScenarios :
        LET c == connect(Self, e)
            a == is_alive(c.s, sc)
            alive == attempt_succeeds(c, a)
            after == IF c.raised = "none" THEN a.s ELSE c.s
            log1 == Append(rlog, Ev("connect", 0))
            log2 == IF c.raised = "none"
                    THEN Append(log1, Ev("is_alive", IF a.raised = "none" /\ a.ret THEN 1 ELSE 0))
                    ELSE log1
            log3 == IF sleeps_after(attempt, max_retries)
                    THEN Append(log2, Ev("sleep", delay)) ELSE log2
        IN  /\ pc = "reconnect"
            /\ c.raised # "none" => sc = "exit_0"
            /\ SetSelf(after)
            /\ calls' = IF c.raised = "none" THEN c.calls \o a.calls ELSE c.calls
            /\ UNCHANGED <<pre, sink, execVars, max_retries, delay>>
            /\ IF alive
               THEN /\ rlog' = log2
                    /\ attempt' = attempt
                    /\ result' = Res("reconnect", "none", "True", -1, "returned", NoErr, NoReply)
                    /\ pc' = "idle"
               ELSE /\ rlog' = log3
                    /\ attempt' = attempt + 1
                    /\ IF attempt + 1 < max_retries
                       THEN UNCHANGED <<result, pc>>
                       ELSE /\ result' = Res("reconnect", "none", "False", -1, "returned", NoErr, NoReply)
                            /\ pc' = "idle"

Next ==
    \/ Connect
    \/ Disconnect
    \/ IsAlive
    \/ Execute
    \/ Tick
    \/ CmdWriteOut
    \/ CmdWriteErr
    \/ CmdPartial
    \/ CmdExit
    \/ PollStep
    \/ ReadOutReturn
    \/ ReadErrReturn
    \/ ReadAbort
    \/ Reconnect
    \/ ReconnectAttempt

Spec == Init /\ [][Next]_vars

(* ============================== properties ============================= *)
\* C1: in every reachable state, whatever sequence of connect, execute, is_alive,
\* reconnect and disconnect calls led to it and however each ended,
\* connected = TRUE implies that the session handle (client) is not None.
C1_ConnectedHasClient == connected => client # "None"

\* a connect that failed on an instance that was connected: the flag is still set
\* and the handle is the freshly made client
C1_Witness == connected /\ result.op = "connect" /\ result.raised # "none" /\ client = "new"

\* C2: execute called while connected = FALSE raises ConnectionLost, makes no
\* transport call, never invokes the sink and leaves connected, client and
\* boot_time as they were.
C2_ExecuteDisconnected ==
    (result.op = "execute" /\ ~pre.connected) =>
        /\ pc = "idle"
        /\ result.raised = "ConnectionLostError"
        /\ calls = <<>>
        /\ sink = <<>>
        /\ Self = pre

\* execute refused on an instance that holds a session and a fingerprint but
\* lost its connected flag
C2_Witness ==
    /\ result.op = "execute"
    /\ ~pre.connected
    /\ pre.client = "open"
    /\ ~Falsy(pre.boot_time)

\* C3: when a fingerprint is stored and the pre-flight fetch succeeds with a value
\* different from the stored one, execute raises UnexpectedReboot having made the
\* fingerprint query only: the requested command is not issued and the sink is
\* not invoked.
C3_RebootBeforeCommand ==
    (/\ result.op = "execute"
     /\ pre.connected
     /\ pre.boot_time # None
     /\ result.fq.ok
     /\ Strip(result.fq.raw) # pre.boot_time) =>
        /\ pc = "idle"
        /\ result.raised = "UnexpectedRebootError"
        /\ calls = <<"exec_command:stat">>
        /\ sink = <<>>

C3_Witness ==
    /\ result.op = "execute"
    /\ result.raised = "UnexpectedRebootError"
    /\ result.fq.ok
    /\ Strip(result.fq.raw) # pre.boot_time

\* C4: for every timeout, once the elapsed time exceeds it and the command has
\* not completed, execute ends by raising CommandTimeout whatever output is
\* pending on the two channels; in particular it never sits in a blocking
\* channel read past the deadline.
C4_NeverBlocksPastDeadline ==
    (pc \in {"read_out", "read_err"} /\ ~done) => clock <= timeout

\* sink entries that came from stdout / from stderr
IsStdoutEntry(x) == x = <<>> \/ x[1] # "STDERR: "
IsStderrEntry(x) == x # <<>> /\ x[1] = "STDERR: "
\* the entries the written lines call for, a line's trailing blanks aside
ExpectOut(ls) == [i \in 1..Len(ls) |-> RStrip(ls[i])]
ExpectErr(ls) == [i \in 1..Len(ls) |-> <<"STDERR: ">> \o RStrip(ls[i])]

\* C5: when a command completes normally, every line it wrote has been forwarded
\* to the sink exactly once, empty lines included: stdout lines as written,
\* stderr lines prefixed with "STDERR: ", in the order written on each channel,
\* and execute returns the remote exit status.
C5_EveryLineForwarded ==
    (result.op = "execute" /\ result.stage = "returned" /\ hasSink) =>
        /\ SelectSeq(sink, IsStdoutEntry) = ExpectOut(cmd.out)
        /\ SelectSeq(sink, IsStderrEntry) = ExpectErr(cmd.err)
        /\ result.ret = "int"
        /\ result.status = cmd.status

\* an error whose nature is a timeout: the transport's timeout class, or one
\* whose message says so
TimeoutFlavoured(e) == e.type = "socket.timeout" \/ MsgSaysTimeout(e)

\* C6: a transport error raised after the pre-flight check (issuing, polling,
\* draining, reading the exit status) has one of two outcomes: a timeout-flavoured
\* error raises CommandTimeout and leaves connected unchanged, any other error
\* sets connected = FALSE and raises ConnectionLost.
C6_ErrorsClassified ==
    (result.op = "execute" /\ pc = "idle" /\ result.cause \in TransportErrors) =>
        IF TimeoutFlavoured(result.cause)
        THEN result.raised = "CommandTimeoutError" /\ connected = pre.connected
        ELSE result.raised = "ConnectionLostError" /\ ~connected

\* C7: whenever connect fails, from any reachable state, connected is false
\* afterwards and the error is ConnectionTimeout for a deadline expiry and the
\* generic connection failure otherwise.
C7_FailedConnectDisconnected ==
    (result.op = "connect" /\ result.raised # "none") =>
        /\ ~connected
        /\ result.raised = IF result.cause.type = "socket.timeout"
                           THEN "ConnectionTimeoutError" ELSE "VMConnectionError"

\* v is raw without its leading and trailing whitespace
IsStrippedFormOf(v, raw) ==
    /\ v = <<>> \/ (v[1] \notin Whitespace /\ v[Len(v)] \notin Whitespace)
    /\ \E i, j \in 0..Len(raw) :
        /\ i + j <= Len(raw)
        /\ v = SubSeq(raw, i + 1, Len(raw) - j)
        /\ \A k \in 1..Len(raw) : (k <= i \/ k > Len(raw) - j) => raw[k] \in Whitespace

\* C8: a successful connect sets connected = TRUE and stores the value the
\* fingerprint query returned (its text, surrounding whitespace removed) when the
\* query succeeds; when the query fails connect still succeeds and the
\* fingerprint is absent afterwards, whatever an earlier connect had stored.
C8_ConnectStoresFingerprint ==
    (result.op = "connect" /\ result.raised = "none") =>
        /\ connected
        /\ client = "open"
        /\ IF result.fq.ok
           THEN boot_time # None /\ IsStrippedFormOf(boot_time, result.fq.raw)
           ELSE boot_time = None

\* a second connect whose fingerprint query fails drops the stored fingerprint
C8_Witness ==
    /\ result.op = "connect"
    /\ result.raised = "none"
    /\ ~result.fq.ok
    /\ ~Falsy(pre.boot_time)
    /\ boot_time = None

\* C9: is_alive on a connected instance whose transport is inactive or missing
\* returns false, sets connected = FALSE and issues no remote command; is_alive
\* on an instance that is not connected or holds no session returns false with
\* no transport call at all.
C9_ProbeWithoutCommand ==
    result.op = "is_alive" =>
        /\ (pre.connected /\ pre.client # "None"
            /\ result.stage \in {"inactive", "no_transport"}) =>
                /\ result.ret = "False"
                /\ ~connected
                /\ \A i \in DOMAIN calls : calls[i] \in {"get_transport", "is_active"}
        /\ (~pre.connected \/ pre.client = "None") =>
                /\ result.ret = "False"
                /\ calls = <<>>
                /\ Self = pre

C9_Witness ==
    /\ result.op = "is_alive"
    /\ pre.connected
    /\ result.stage = "inactive"
    /\ ~connected

\* the calls reconnect makes itself, the liveness probes aside
NotProbe(x) == x.ev # "is_alive"

\* one disconnect, then n connects with a sleep of d between consecutive ones
RECURSIVE FailLog(_, _)
FailLog(n, d) ==
    IF n = 1
    THEN <<Ev("disconnect", 0), Ev("connect", 0)>>
    ELSE FailLog(n - 1, d) \o <<Ev("sleep", d), Ev("connect", 0)>>

\* C10: for max_retries = n >= 1, a reconnect whose attempts all fail (connect
\* raises, or connects and is_alive is false) makes one disconnect first, then
\* exactly n connect attempts with exactly n-1 sleeps of the given delay, one
\* between each two consecutive attempts and none after the last, and returns
\* false; for n <= 0 it makes no attempt and returns false.
C10_FailedReconnect ==
    /\ pc = "reconnect" => (max_retries >= 1 /\ attempt < max_retries)
    /\ (result.op = "reconnect" /\ result.stage = "returned" /\ result.ret = "False") =>
          IF max_retries >= 1
          THEN /\ SelectSeq(rlog, NotProbe) = FailLog(max_retries, delay)
               /\ attempt = max_retries
          ELSE rlog = <<Ev("disconnect", 0)>>
    /\ (result.op = "reconnect" /\ result.stage = "returned" /\ max_retries <= 0) =>
          result.ret = "False"

\* two failed attempts, one of them a connect that succeeded with a dead probe
C10_Witness ==
    /\ result.op = "reconnect"
    /\ result.stage = "returned"
    /\ result.ret = "False"
    /\ max_retries = 2
    /\ delay = 5
    /\ \E i \in DOMAIN rlog : rlog[i].ev = "is_alive"

IsConnectEv(x) == x.ev = "connect"

IsSleepEv(x) == x.ev = "sleep"

\* a probe made by reconnect that returned true
LiveProbe == Ev("is_alive", 1)

\* C11: reconnect returns true at the first attempt k (1 <= k <= max_retries) on
\* which connect succeeds and the is_alive that immediately follows returns true:
\* it has then made exactly k connect calls and k-1 sleeps, makes no further
\* connect or sleep after that attempt, and returns true in no other case.
C11_ReconnectStopsAtFirstLiveAttempt ==
    result.op = "reconnect" =>
        LET n == Len(rlog)
            k == Len(SelectSeq(rlog, IsConnectEv))
        IN  /\ result.ret = "True" =>
                /\ pc = "idle"
                /\ n >= 3
                /\ rlog[n] = LiveProbe
                /\ rlog[n - 1] = Ev("connect", 0)
                /\ \A i \in 1..(n - 1) : rlog[i] # LiveProbe
                /\ k \in 1..max_retries
                /\ Len(SelectSeq(rlog, IsSleepEv)) = k - 1
                /\ SelectSeq(rlog, NotProbe) = FailLog(k, delay)
            /\ (\E i \in 1..n : rlog[i] = LiveProbe) => result.ret = "True"

\* success at the second attempt, after a first one whose probe was dead
C11_Witness ==
    /\ result.op = "reconnect"
    /\ result.ret = "True"
    /\ max_retries = 2
    /\ Len(SelectSeq(rlog, IsConnectEv)) = 2
    /\ \E i \in DOMAIN rlog : rlog[i] = Ev("is_alive", 0)

\* C12: disconnect is idempotent and total: from any reachable state (never
\* connected, connected, already disconnected, a session whose close fails) it
\* does not raise and ends with the client cleared and connected false; a second
\* consecutive disconnect leaves the state as it was and makes no close call.
C12_DisconnectIdempotent ==
    result.op = "disconnect" =>
        /\ result.raised = "none"
        /\ client = "None"
        /\ ~connected
        /\ pre.client = "None" => calls = <<>>
        /\ (pre.client = "None" /\ ~pre.connected) => Self = pre

\* a disconnect on an instance that was connected once and is already disconnected
C12_Witness ==
    /\ result.op = "disconnect"
    /\ pre.client = "None"
    /\ pre.boot_time # None
    /\ calls = <<>>

\* C13: every session acquired by connect is released by disconnect: a session
\* handle is never overwritten or dropped without a close having been attempted
\* on it, so that no session opened by this connection stays open after a final
\* disconnect. Here: a connect that replaces an open session has closed it.
C13_NoSessionDropped ==
    (result.op = "connect" /\ pre.client = "open") =>
        \E i \in DOMAIN calls : calls[i] = "close"

\* the is_alive scenarios in which a transport call raises
AliveRaising ==
    {"lookup_raises", "is_active_raises", "exec_raises", "poll_raises", "status_raises"}

\* C14: reconnect and is_alive never raise: whatever the transport does (connect
\* raising, the liveness command raising, close raising, the transport lookup
\* raising) each of them returns a boolean, and every exception inside is_alive
\* ends in connected false and a false return.
C14_ProbeAndReconnectNeverRaise ==
    /\ result.op = "is_alive" =>
          /\ result.raised = "none"
          /\ result.ret \in {"True", "False"}
          /\ result.stage \in AliveRaising => (~connected /\ result.ret = "False")
    /\ result.op = "reconnect" =>
          /\ result.raised = "none"
          /\ pc = "idle" => result.ret \in {"True", "False"}

\* a probe whose final status read raised, on a connection that was open
C14_Witness ==
    /\ result.op = "is_alive"
    /\ result.stage = "status_raises"
    /\ pre.connected
    /\ pre.client = "open"
    /\ result.ret = "False"

\* C15: when a fingerprint is stored but the pre-flight fetch of the fresh one
\* fails, the check counts as passed: execute does not raise UnexpectedReboot and
\* goes on to issue the command; when no fingerprint is stored the check makes no
\* transport call at all.
C15_FailedFetchPasses ==
    (result.op = "execute" /\ pre.connected) =>
        /\ (~Falsy(pre.boot_time) /\ ~result.fq.ok) =>
              /\ result.raised # "UnexpectedRebootError"
              /\ Len(calls) >= 2
              /\ calls[1] = "exec_command:stat"
              /\ calls[2] = "exec_command:cmd"
        /\ Falsy(pre.boot_time) =>
              /\ calls # <<>>
              /\ calls[1] = "exec_command:cmd"
              /\ \A i \in DOMAIN calls : calls[i] # "exec_command:stat"

\* a command that ran to its exit status after a fingerprint fetch that failed
C15_Witness ==
    /\ result.op = "execute"
    /\ pre.connected
    /\ ~Falsy(pre.boot_time)
    /\ ~result.fq.ok
    /\ calls = <<"exec_command:stat", "exec_command:cmd">>
    /\ result.stage = "returned"
    /\ result.ret = "int"

\* C16: the stored fingerprint is changed only by connect: execute (whatever its
\* outcome), is_alive, disconnect and a failed connect leave it as it was, so a
\* present fingerprint is always the value captured by the most recent successful
\* connect (within reconnect: by one of its connects that succeeded).
C16_FingerprintOnlyFromConnect ==
    /\ result.op \in {"execute", "is_alive", "disconnect"} => boot_time = pre.boot_time
    /\ (result.op = "connect" /\ result.raised # "none") => boot_time = pre.boot_time
    /\ (result.op = "connect" /\ result.raised = "none") =>
          boot_time = IF result.fq.ok THEN Strip(result.fq.raw) ELSE None
    /\ (result.op = "reconnect" /\ boot_time # pre.boot_time) =>
          \E i \in DOMAIN rlog : rlog[i].ev = "is_alive"

\* a failed connect on an instance that still holds an earlier fingerprint
C16_Witness ==
    /\ result.op = "connect"
    /\ result.raised # "none"
    /\ ~Falsy(boot_time)
    /\ boot_time = pre.boot_time

\* C17: in each poll iteration the deadline is tested before completion: when the
\* elapsed time exceeds the timeout and the command has also completed, execute
\* raises CommandTimeout and neither drains output nor returns the exit status;
\* an exit status is returned only by an iteration whose elapsed time is within
\* the timeout.
C17_DeadlineBeforeCompletion ==
    (result.op = "execute" /\ result.stage = "deadline" /\ done) =>
        /\ result.raised = "CommandTimeoutError"
        /\ result.ret = "None"
        /\ result.status = -1

\* C18: the boolean reconnect returns agrees with the state: after true, connected
\* is true and a session is held; after false, for any max_retries and any mix of
\* failures, connected is false.
C18_ReconnectAgreesWithState ==
    (result.op = "reconnect" /\ pc = "idle") =>
        /\ result.ret = "True" => (connected /\ client = "open")
        /\ result.ret = "False" => ~connected

ExecuteErrors == {"ConnectionLostError", "UnexpectedRebootError", "CommandTimeoutError"}

\* C19: every error that escapes execute is ConnectionLost, UnexpectedReboot or
\* CommandTimeout, whatever fails inside it (fingerprint query, issuing the
\* command, channel reads, the cancel on timeout, the sink raising), and execute
\* sets connected to false only when it ends in ConnectionLost.
C19_ExecuteErrorsClosed ==
    result.op = "execute" =>
        /\ result.raised \in ExecuteErrors \cup {"none"}
        /\ connected # pre.connected => (result.raised = "ConnectionLostError" /\ ~connected)
        /\ result.raised = "ConnectionLostError" => ~connected

\* the sink raised while a line was being forwarded
C19_Witness ==
    /\ result.op = "execute"
    /\ result.cause = SinkError
    /\ result.raised = "ConnectionLostError"
    /\ pre.connected
    /\ ~connected

\* the last operation was an execute that ended in UnexpectedRebootError
Rebooted == result.op = "execute" /\ result.raised = "UnexpectedRebootError"

\* C20: an execute that raises UnexpectedReboot leaves connected, client and the
\* stored fingerprint as they were (connected stays true, the old fingerprint
\* stays stored); so while the remote fingerprint can be fetched and still
\* differs, the next execute raises UnexpectedReboot again without issuing its
\* command, until a fresh successful connect captures the fingerprint anew.
C20_RebootSticks ==
    /\ [](Rebooted =>
            /\ Self = pre
            /\ connected
            /\ ~Falsy(boot_time)
            /\ calls = <<"exec_command:stat">>)
    /\ [][(/\ Rebooted
           /\ result'.op = "execute"
           /\ result'.fq.ok
           /\ Strip(result'.fq.raw) # boot_time)
          => (/\ result'.raised = "UnexpectedRebootError"
              /\ calls' = <<"exec_command:stat">>
              /\ connected'
              /\ boot_time' = boot_time)]_vars

\* a detected reboot on an open, connected session
C20_Witness ==
    /\ Rebooted
    /\ pre.connected
    /\ client = "open"
    /\ result.fq.ok
    /\ Strip(result.fq.raw) # boot_time

====
